---- MODULE Spec2Model ----
(***************************************************************************)
(* Scoring and persona classification engine of the quiz application.      *)
(*                                                                         *)
(* The repository holds the engine in two shapes:                          *)
(*   "App"      src/App.tsx (same engine in src/unnamed/part_000 and       *)
(*              part_001): 4 categories x 5 questions, category max 15     *)
(*   "part_002" src/unnamed/part_002: 4 categories x 4 questions,          *)
(*              category max 12                                            *)
(*                                                                         *)
(* localSummary, the fallback rule of runDiagnosis and activePersona are   *)
(* pure computations over the component state (step, answers, aiAnalysis). *)
(* The specification draws that state from bounded input sets and its      *)
(* actions evaluate the computations as the component does on a render and *)
(* when the fallback report is installed.                                  *)
(*                                                                         *)
(* JavaScript values:                                                      *)
(*   answers     a function from the answered question ids to numbers; a   *)
(*               missing key reads as undefined                            *)
(*   strings     sequences of one-character strings                        *)
(*   levels      "Red" = '紅燈', "Yellow" = '黃燈', "Green" = '綠燈'        *)
(***************************************************************************)
EXTENDS Integers, Sequences, FiniteSets, TLC

VARIABLES variant, step, answers, aiAnalysis, summary, persona

\* the rest of the component: navigation, the error screen, the refs, the
\* calls and timers under way, the webhook payload, and the history the
\* properties read (lastOp, chosen, source)
VARIABLES currentIdx, isIntroMode, lastError, showKeyInput, customApiKey,
          envApiKey, isAiLoading, aiFetchingRef, lastFetchTimeRef,
          effectQueue, requests, fallbackTimers, answerTimers, payload,
          lastOp, chosen, source

navVars == <<currentIdx, isIntroMode>>

errorVars == <<lastError, showKeyInput>>

keyVars == <<customApiKey, envApiKey>>

refVars == <<aiFetchingRef, lastFetchTimeRef>>

asyncVars == <<effectQueue, requests, fallbackTimers, answerTimers>>

historyVars == <<lastOp, chosen, source>>

\* the email funnel of src/unnamed/part_000: emailStatus and isResultUnlocked,
\* the webhook fetches awaited, the search parameters of window.location, the
\* runs of the URL-parameter effect still to come after the mount, and
\* whether the page was opened with an email parameter
VARIABLES emailStatus, isResultUnlocked, webhookRequests, location,
          mountEffects, urlEmail

funnelVars ==
    <<emailStatus, isResultUnlocked, webhookRequests, location, mountEffects,
      urlEmail>>

\* what the last step did: the arguments of the runDiagnosis call it made,
\* and the position (isIntroMode, currentIdx) its nextStep call closed over
VARIABLES called, origin

callVars == <<called, origin>>

appVars ==
    <<navVars, errorVars, keyVars, isAiLoading, refVars, asyncVars, payload,
      historyVars, funnelVars, callVars>>

vars == <<variant, step, answers, aiAnalysis, summary, persona, appVars>>

----------------------------------------------------------------------------
(* Bounds of the input sets                                                *)

\* number of questions of the last category answered freely, the other
\* questions following their category's uniform choice
FreeQuestions == 1

\* longest run of whitespace put before and after a raw persona id
MaxPad == 1

----------------------------------------------------------------------------
(* Static configuration (./constants and ./types)                          *)

Variants == {"App", "part_002"}

Steps == {"hero", "quiz", "diagnosing", "result"}

\* questions per category: the intro card is shown every 5 (4) questions
QuestionsPerCategory(v) == IF v = "App" THEN 5 ELSE 4

\* const categories: Category[] = [...] in display order
\* App:      '面容氣色', '髮型駕馭', '穿搭策略', '社群形象'
\* part_002: '形象外表', '社群形象', '行動與互動', '心態與習慣'
categories(v) ==
    IF v = "App" THEN <<"skin", "hair", "style", "social">>
                 ELSE <<"appearance", "social", "interaction", "mindset">>

NumCategories == 4

\* a question bank: ids 1..N, the questions of one category adjacent, in the
\* order of categories
QuestionBank(v) ==
    [i \in 1..(NumCategories * QuestionsPerCategory(v)) |->
        [id |-> i,
         category |-> categories(v)[((i - 1) \div QuestionsPerCategory(v)) + 1]]]

QuestionsApp == QuestionBank("App")

QuestionsPart002 == QuestionBank("part_002")

\* QUESTIONS of ./constants
QUESTIONS(v) == IF v = "App" THEN QuestionsApp ELSE QuestionsPart002

IdsApp == {QuestionsApp[i].id : i \in DOMAIN QuestionsApp}

IdsPart002 == {QuestionsPart002[i].id : i \in DOMAIN QuestionsPart002}

QuestionIds(v) == IF v = "App" THEN IdsApp ELSE IdsPart002

\* OPTIONS: the shared option values; -1 is the sentinel "unsure"
Sentinel == -1

MaxOptionValue == 3

OptionValues == {Sentinel} \cup (0..MaxOptionValue)

----------------------------------------------------------------------------
(* localSummary                                                            *)

NullSummary == [kind |-> "null"]

Pending == [kind |-> "pending"]

\* Contribution without the sentinel case: acc + (val || 0)
Contribution_NoSentinel(a, id) ==
    IF id \notin DOMAIN a THEN 0 ELSE a[id]

\* acc + (val === -1 ? 0 : (val || 0)) with val = answers[q.id]
Contribution(a, id) ==
    IF id \notin DOMAIN a THEN 0
    ELSE IF a[id] = -1 THEN 0
    ELSE IF a[id] = 0 THEN 0
    ELSE a[id]

\* catQuestions that keeps four questions of a category
catQuestions_FirstFour(v, cat) ==
    LET qs == SelectSeq(QUESTIONS(v), LAMBDA q : q.category = cat)
    IN SubSeq(qs, 1, 4)

\* QUESTIONS.filter(q => q.category === cat)
catQuestions(v, cat) ==
    SelectSeq(QUESTIONS(v), LAMBDA q : q.category = cat)

RECURSIVE ReduceScore(_, _, _)
\* catQuestions.reduce((acc, q) => acc + ..., 0), from the left
ReduceScore(qs, a, acc) ==
    IF qs = <<>> THEN acc
    ELSE ReduceScore(Tail(qs), a, acc + Contribution(a, Head(qs).id))

categoryScore(v, cat, a) == ReduceScore(catQuestions(v, cat), a, 0)

\* levelApp by a table over the scores 0..15
levelApp_Table(score) ==
    IF score \notin 0..15 THEN "undefined"
    ELSE IF score >= 12 THEN "Green"
    ELSE IF score >= 7 THEN "Yellow"
    ELSE "Red"

\* App.tsx: if (score >= 12) Green; else if (score >= 7) Yellow; else Red
levelApp(score) ==
    IF score >= 12 THEN "Green"
    ELSE IF score >= 7 THEN "Yellow"
    ELSE "Red"

\* levelPart002 with Green from 80% of 12 on
levelPart002_EightyPercent(score) ==
    IF score >= 10 THEN "Green"
    ELSE IF score >= 5 THEN "Yellow"
    ELSE "Red"

\* part_002: if (score >= 9) Green; else if (score >= 5) Yellow; else Red
levelPart002(score) ==
    IF score >= 9 THEN "Green"
    ELSE IF score >= 5 THEN "Yellow"
    ELSE "Red"

level(v, score) == IF v = "App" THEN levelApp(score) ELSE levelPart002(score)

\* ReduceTotal that misses the last category
ReduceTotal_DropLast(rs, acc) ==
    IF Len(rs) <= 1 THEN acc
    ELSE acc + rs[1].score + rs[2].score + rs[3].score

RECURSIVE ReduceTotal(_, _)
\* summary.reduce((acc, curr) => acc + curr.score, 0)
ReduceTotal(rs, acc) ==
    IF rs = <<>> THEN acc
    ELSE ReduceTotal(Tail(rs), acc + Head(rs).score)

\* categoryResult with the level taken from the mean of the four scores
categoryResult_Averaged(v, cat, a) ==
    LET score == categoryScore(v, cat, a)
        mean == (categoryScore(v, categories(v)[1], a)
                   + categoryScore(v, categories(v)[2], a)
                   + categoryScore(v, categories(v)[3], a)
                   + categoryScore(v, categories(v)[4], a)) \div NumCategories
    IN [category |-> cat, score |-> score, level |-> level(v, mean)]

\* one element of categories.map(cat => { ... return { category, score, level } })
categoryResult(v, cat, a) ==
    LET score == categoryScore(v, cat, a)
    IN [category |-> cat, score |-> score, level |-> level(v, score)]

\* localSummary without the check of step
localSummary_AnyStep(v, s, a) ==
    LET results == [i \in 1..NumCategories |->
                       categoryResult(v, categories(v)[i], a)]
    IN [kind |-> "summary",
        summary |-> results,
        totalScore |-> ReduceTotal(results, 0)]

\* useMemo(() => { if (step !== 'result' && step !== 'diagnosing') return
\* null; ... }, [step, answers])
localSummary(v, s, a) ==
    IF s # "result" /\ s # "diagnosing" THEN NullSummary
    ELSE LET results == [i \in 1..NumCategories |->
                            categoryResult(v, categories(v)[i], a)]
         IN [kind |-> "summary",
             summary |-> results,
             totalScore |-> ReduceTotal(results, 0)]

----------------------------------------------------------------------------
(* JavaScript strings and values                                           *)

UpperChars ==
    <<"A", "B", "C", "D", "E", "F", "G", "H", "I", "J", "K", "L", "M",
      "N", "O", "P", "Q", "R", "S", "T", "U", "V", "W", "X", "Y", "Z">>

LowerChars ==
    <<"a", "b", "c", "d", "e", "f", "g", "h", "i", "j", "k", "l", "m",
      "n", "o", "p", "q", "r", "s", "t", "u", "v", "w", "x", "y", "z">>

\* the white space String.prototype.trim removes (the characters used here)
WhitespaceChars == {" ", "\t", "\n"}

toLowerChar(c) ==
    IF \E i \in DOMAIN UpperChars : UpperChars[i] = c
    THEN LowerChars[CHOOSE i \in DOMAIN UpperChars : UpperChars[i] = c]
    ELSE c

toUpperChar(c) ==
    IF \E i \in DOMAIN LowerChars : LowerChars[i] = c
    THEN UpperChars[CHOOSE i \in DOMAIN LowerChars : LowerChars[i] = c]
    ELSE c

\* String.prototype.toLowerCase
toLowerCase(str) == [i \in 1..Len(str) |-> toLowerChar(str[i])]

RECURSIVE trimStart(_)
trimStart(str) ==
    IF str # <<>> /\ Head(str) \in WhitespaceChars THEN trimStart(Tail(str))
    ELSE str

RECURSIVE trimEnd(_)
trimEnd(str) ==
    IF str # <<>> /\ str[Len(str)] \in WhitespaceChars
    THEN trimEnd(SubSeq(str, 1, Len(str) - 1))
    ELSE str

trim_StartOnly(str) == trimStart(str)

\* String.prototype.trim
trim(str) == trimEnd(trimStart(str))

JsString(chars) == [type |-> "string", chars |-> chars]

\* a falsy value that is no string: undefined (the property is absent), null,
\* 0, false
JsUndefined == [type |-> "undefined", chars |-> <<>>]

\* a truthy value that is no string: a non-zero number, true, an object
JsOther == [type |-> "other", chars |-> <<>>]

----------------------------------------------------------------------------
(* PERSONAS                                                                *)

charmer == <<"c", "h", "a", "r", "m", "e", "r">>

statue == <<"s", "t", "a", "t", "u", "e">>

hustler == <<"h", "u", "s", "t", "l", "e", "r">>

neighbor == <<"n", "e", "i", "g", "h", "b", "o", "r">>

sage == <<"s", "a", "g", "e">>

pioneer == <<"p", "i", "o", "n", "e", "e", "r">>

\* the persona list, in the order [charmer, statue, hustler, neighbor, sage,
\* pioneer]; PERSONAS[5] of the code is PERSONAS[6] here (sequences start at 1)
PERSONAS ==
    <<[id |-> charmer], [id |-> statue], [id |-> hustler],
      [id |-> neighbor], [id |-> sage], [id |-> pioneer]>>

PersonaIds == {PERSONAS[i].id : i \in DOMAIN PERSONAS}

----------------------------------------------------------------------------
(* The fallback rule of runDiagnosis                                       *)

\* fallbackIdApp without the initial 'neighbor': undefined in the middle band
fallbackIdApp_NoDefault(totalScore) ==
    IF totalScore >= 48 THEN charmer
    ELSE IF totalScore >= 38 THEN statue
    ELSE IF totalScore <= 20 THEN pioneer
    ELSE <<"u", "n", "d", "e", "f", "i", "n", "e", "d">>

\* fallbackIdApp with the top band starting above 48, as in the AI prompt
fallbackIdApp_Above48(totalScore) ==
    IF totalScore > 48 THEN charmer
    ELSE IF totalScore >= 38 THEN statue
    ELSE IF totalScore <= 20 THEN pioneer
    ELSE neighbor

\* App.tsx: let fallbackId = 'neighbor'; if (totalScore >= 48) 'charmer';
\* else if (totalScore >= 38) 'statue'; else if (totalScore <= 20) 'pioneer'
fallbackIdApp(totalScore) ==
    IF totalScore >= 48 THEN charmer
    ELSE IF totalScore >= 38 THEN statue
    ELSE IF totalScore <= 20 THEN pioneer
    ELSE neighbor

\* fallbackIdPart002 with the 48 of the other variant
fallbackIdPart002_Above48(totalScore) ==
    IF totalScore > 48 THEN charmer ELSE neighbor

\* part_002: localSummary.totalScore > 36 ? 'charmer' : 'neighbor'
fallbackIdPart002(totalScore) ==
    IF totalScore > 36 THEN charmer ELSE neighbor

fallbackId(v, totalScore) ==
    IF v = "App" THEN fallbackIdApp(totalScore)
                 ELSE fallbackIdPart002(totalScore)

\* the values of aiAnalysis: null, a parsed JSON object, or another JSON value
\* (falsy: 0, false, ""; truthy: a non-zero number, true, a string, an array)
JsNull == [kind |-> "null"]

AiObject(selectedPersonaId, personaExplanation) ==
    [kind |-> "object",
     selectedPersonaId |-> selectedPersonaId,
     personaExplanation |-> personaExplanation]

\* const fallbackAnalysis: AiReport = { selectedPersonaId: fallbackId, ... }
fallbackAnalysis(v, sum, forceFallback) ==
    AiObject(JsString(fallbackId(v, sum.totalScore)),
             IF forceFallback THEN "basic analysis mode" ELSE "AI busy")

----------------------------------------------------------------------------
(* activePersona                                                           *)

TypeError == [kind |-> "throw", error |-> "TypeError"]

Returned(p) == [kind |-> "return", value |-> p]

\* !aiAnalysis
Falsy(ai) == ai.kind \in {"null", "falsy"}

\* aiAnalysis.selectedPersonaId: undefined on a value without that property
selectedPersonaIdOf(ai) ==
    IF ai.kind = "object" THEN ai.selectedPersonaId ELSE JsUndefined

\* PERSONAS.find(p => p.id === normalizedId): the first match or undefined
findPersona(normalizedId) ==
    LET hits == {i \in DOMAIN PERSONAS : PERSONAS[i].id = normalizedId}
    IN IF hits = {} THEN <<>>
       ELSE <<PERSONAS[CHOOSE i \in hits : \A j \in hits : i <= j]>>

activePersona(ai) ==
    IF Falsy(ai) THEN Returned(PERSONAS[6])
    ELSE LET raw == selectedPersonaIdOf(ai)
         IN IF raw.type # "string" THEN TypeError
            ELSE LET normalizedId == trim(toLowerCase(raw.chars))
                     found == findPersona(normalizedId)
                 IN IF found # <<>> THEN Returned(found[1])
                    ELSE Returned(PERSONAS[6])

----------------------------------------------------------------------------
(* sendResultsToWebhook (src/unnamed/part_000)                             *)

\* report.selectedPersonaId ? report.selectedPersonaId.toLowerCase().trim()
\*                          : 'neighbor'
webhookNormalizedId(report) ==
    LET raw == selectedPersonaIdOf(report)
    IN IF raw.type = "undefined" \/ (raw.type = "string" /\ raw.chars = <<>>)
       THEN Returned(neighbor)
       ELSE IF raw.type # "string" THEN TypeError
       ELSE Returned(trim(toLowerCase(raw.chars)))

\* PERSONAS.find(p => p.id === normalizedId)
\*     || PERSONAS.find(p => p.id === 'neighbor') || PERSONAS[3]
personaData(normalizedId) ==
    LET found == findPersona(normalizedId)
        fallback == findPersona(neighbor)
    IN IF found # <<>> THEN found[1]
       ELSE IF fallback # <<>> THEN fallback[1]
       ELSE PERSONAS[4]

\* the part of the payload that names the persona:
\* quiz_result: { persona_id: normalizedId, persona_title: personaData?.title }
webhookPayload(report) ==
    LET normalizedId == webhookNormalizedId(report)
    IN IF normalizedId.kind = "throw" THEN TypeError
       ELSE [kind |-> "payload",
             persona_id |-> normalizedId.value,
             persona_title |-> personaData(normalizedId.value).id]

----------------------------------------------------------------------------
(* Bounded inputs                                                          *)

\* what the user did with one question: left it unanswered, or chose a value
Choices ==
    {[answered |-> FALSE, val |-> 0]}
        \cup {[answered |-> TRUE, val |-> o] : o \in OptionValues}

\* the category (1..4) of question id q
CategoryIndexOf(v, q) == ((q - 1) \div QuestionsPerCategory(v)) + 1

\* the first question id of the last category
LastCategoryStart(v) == (NumCategories - 1) * QuestionsPerCategory(v) + 1

\* the answers object of a quiz in which every question of category i got
\* choice cs[i], except that the first Len(fs) questions of the last category
\* got the choices fs
Sheet(v, cs, fs) ==
    LET choice(q) ==
            IF q >= LastCategoryStart(v) /\ q < LastCategoryStart(v) + Len(fs)
            THEN fs[q - LastCategoryStart(v) + 1]
            ELSE cs[CategoryIndexOf(v, q)]
    IN [q \in {p \in QuestionIds(v) : choice(p).answered} |-> choice(q).val]

\* the sheets with a uniform choice per category, the same one in the first
\* two categories, and n free questions
AnswerSheets(v, n) ==
    {Sheet(v, cs, fs) : cs \in {c \in [1..NumCategories -> Choices] : c[1] = c[2]},
                        fs \in [1..n -> Choices]}

\* str with the letters at the positions in up put in upper case
WithUpper(str, up) ==
    [i \in 1..Len(str) |-> IF i \in up THEN toUpperChar(str[i]) ELSE str[i]]

CaseVariants(str) == {WithUpper(str, up) : up \in SUBSET (1..Len(str))}

PadChars == {" ", "\t"}

RECURSIVE Pads(_)
\* the runs of at most n white space characters
Pads(n) ==
    IF n = 0 THEN {<<>>}
    ELSE Pads(n - 1) \cup {<<c>> \o p : c \in PadChars, p \in Pads(n - 1)}

\* texts no persona id matches: empty, blank, an unknown token, a known id
\* with white space inside, a known id with a letter more
UnmatchedIds ==
    {<<>>, <<" ">>, <<"g", "u", "r", "u">>, <<"s", "a", " ", "g", "e">>,
     <<"s", "a", "g", "e", "s">>}

\* the texts an AI report may carry as selectedPersonaId
RawIds ==
    {l \o c \o r : l \in Pads(MaxPad), r \in Pads(MaxPad),
                   c \in UNION {CaseVariants(id) : id \in PersonaIds}}
        \cup UnmatchedIds

\* the values JSON.parse(text) may hand to setAiAnalysis
AiReports ==
    {AiObject(JsString(raw), "AI") : raw \in RawIds}
        \cup {AiObject(JsUndefined, "AI"), AiObject(JsOther, "AI"),
              JsNull, [kind |-> "falsy"], [kind |-> "truthy"]}

----------------------------------------------------------------------------
(* Specification                                                           *)

NoPayload == [kind |-> "none"]

NoCall == [kind |-> "none"]

NoOrigin == [kind |-> "none"]

\* window.location.search without the parameters start and email
NoParams == [start |-> FALSE, email |-> FALSE]

\* a page opened without URL parameters (App.tsx reads none)
PlainUrl ==
    /\ location = NoParams
    /\ mountEffects = 0
    /\ urlEmail = FALSE

\* the useState / useRef initial values of the rest of the component
ComponentAtRest ==
    /\ currentIdx = 0
    /\ isIntroMode = TRUE
    /\ lastError = ""
    /\ showKeyInput = FALSE
    /\ customApiKey = FALSE
    /\ isAiLoading = FALSE
    /\ aiFetchingRef = FALSE
    /\ lastFetchTimeRef = "zero"
    /\ effectQueue = <<>>
    /\ requests = 0
    /\ fallbackTimers = <<>>
    /\ answerTimers = <<>>
    /\ payload = NoPayload
    /\ lastOp = "mount"
    /\ chosen = <<>>
    /\ source = "none"
    /\ emailStatus = "idle"
    /\ isResultUnlocked = FALSE
    /\ webhookRequests = 0
    /\ called = NoCall
    /\ origin = NoOrigin

\* a component state on entering 'diagnosing', with no report yet, before it
\* is rendered
InitScoring ==
    /\ variant \in Variants
    /\ step = "diagnosing"
    /\ answers \in AnswerSheets(variant, FreeQuestions)
    /\ aiAnalysis = JsNull
    /\ summary = Pending
    /\ persona = Pending
    /\ envApiKey = FALSE
    /\ ComponentAtRest
    /\ PlainUrl

\* the same at the other steps
InitOtherSteps ==
    /\ variant \in Variants
    /\ step \in Steps \ {"diagnosing"}
    /\ answers \in AnswerSheets(variant, 0)
    /\ aiAnalysis = JsNull
    /\ summary = Pending
    /\ persona = Pending
    /\ envApiKey = FALSE
    /\ ComponentAtRest
    /\ PlainUrl

\* a component state in which the AI call has returned and its parsed report
\* has been handed to setAiAnalysis, before it is rendered
InitReport ==
    /\ variant = "App"
    /\ step = "diagnosing"
    /\ answers \in AnswerSheets(variant, 0)
    /\ \A q \in QuestionIds(variant) : q \in DOMAIN answers /\ answers[q] = 2
    /\ aiAnalysis \in AiReports
    /\ summary = Pending
    /\ persona = Pending
    /\ envApiKey = FALSE
    /\ ComponentAtRest
    /\ PlainUrl

Init == InitScoring \/ InitOtherSteps \/ InitReport

\* one render of the component: the useMemo bodies of localSummary and
\* activePersona are evaluated on the current state
Render ==
    /\ summary = Pending
    /\ summary' = localSummary(variant, step, answers)
    /\ persona' = activePersona(aiAnalysis)
    /\ UNCHANGED <<variant, step, answers, aiAnalysis, appVars>>

\* runDiagnosis up to setAiAnalysis(fallbackAnalysis): nothing happens without
\* a summary; the fallback report is built from the summary's totalScore and
\* installed, and the render that follows re-evaluates activePersona
\* (localSummary's dependencies, step and answers, did not change)
InstallFallback(forceFallback) ==
    /\ summary.kind = "summary"
    /\ aiAnalysis = JsNull
    /\ aiAnalysis' = fallbackAnalysis(variant, summary, forceFallback)
    /\ persona' = activePersona(aiAnalysis')
    /\ UNCHANGED <<variant, step, answers, summary, appVars>>

Next ==
    \/ Render
    \/ \E forceFallback \in BOOLEAN : InstallFallback(forceFallback)

Spec == Init /\ [][Next]_vars

\* numbers outside the option scale -1..3
OutOfScale == {-3, 7}

WideChoices ==
    Choices \cup {[answered |-> TRUE, val |-> o] : o \in OutOfScale}

\* the whole input domain of localSummary: the sheets with a uniform choice
\* per category (the same one in the first two), a choice being no answer,
\* an option or a number outside the scale
DomainInit ==
    /\ variant \in Variants
    /\ step \in {"diagnosing", "result"}
    /\ answers \in {Sheet(variant, cs, <<>>) :
                        cs \in {c \in [1..NumCategories -> WideChoices] :
                                    c[1] = c[2]}}
    /\ aiAnalysis = JsNull
    /\ summary = Pending
    /\ persona = Pending
    /\ envApiKey = FALSE
    /\ ComponentAtRest
    /\ PlainUrl

DomainNext == Render

DomainSpec == DomainInit /\ [][DomainNext]_vars

----------------------------------------------------------------------------
(* Vocabulary of the properties                                            *)

\* the prompt of runDiagnosis: total score out of 60 (4 categories of 15)
MaxTotalScore == 60

Rendered == summary.kind = "summary"

\* the question ids of the i-th category
IdsOfCategory(v, i) == {q \in QuestionIds(v) : CategoryIndexOf(v, q) = i}

RECURSIVE SumOfAnswers(_, _)
\* the sum of the answers a gives to the question ids in qs
SumOfAnswers(qs, a) ==
    IF qs = {} THEN 0
    ELSE LET q == CHOOSE p \in qs : TRUE
         IN a[q] + SumOfAnswers(qs \ {q}, a)

\* the ids of category i that are answered with something else than the sentinel
Scored(v, i, a) ==
    {q \in IdsOfCategory(v, i) \cap DOMAIN a : a[q] # Sentinel}

CategoryMax(v) == QuestionsPerCategory(v) * MaxOptionValue

\* the fallback report is the installed analysis
FallbackInstalled ==
    /\ Rendered
    /\ aiAnalysis.kind = "object"
    /\ aiAnalysis.personaExplanation # "AI"

InstalledId == aiAnalysis.selectedPersonaId.chars

AllAnswered(val) ==
    \A q \in QuestionIds(variant) : q \in DOMAIN answers /\ answers[q] = val

----------------------------------------------------------------------------
(* Properties                                                              *)

\* C1: for every answers mapping (complete, partial or empty) the totalScore
\* of the summary is the sum of the four category scores.
C1_TotalIsSumOfCategories ==
    Rendered =>
        summary.totalScore =
            summary.summary[1].score + summary.summary[2].score
                + summary.summary[3].score + summary.summary[4].score

\* a summary of a partial answers object with points in the last category
C1_Witness ==
    /\ Rendered
    /\ DOMAIN answers # {}
    /\ DOMAIN answers # QuestionIds(variant)
    /\ summary.summary[4].score > 0
    /\ summary.totalScore > summary.summary[4].score

\* C2: a question answered with the sentinel -1 and a question with no answer
\* contribute 0 to their category's score, every other answered question
\* contributes its option value; so no score is below 0.
C2_SentinelAndMissingContributeZero ==
    Rendered =>
        \A i \in 1..NumCategories :
            /\ summary.summary[i].score =
                   SumOfAnswers(Scored(variant, i, answers), answers)
            /\ summary.summary[i].score >= 0

\* a category with a sentinel answer among answers of value 3, next to an
\* unanswered category
C2_Witness ==
    /\ Rendered
    /\ \E q \in DOMAIN answers : answers[q] = Sentinel /\
          \E r \in DOMAIN answers :
              /\ CategoryIndexOf(variant, r) = CategoryIndexOf(variant, q)
              /\ answers[r] = MaxOptionValue
    /\ \E i \in 1..NumCategories : IdsOfCategory(variant, i) \cap DOMAIN answers = {}

\* the answers object a with the questions outside category i given choice c
WithOtherCategories(v, a, i, c) ==
    LET own == IdsOfCategory(v, i)
        others == IF c.answered THEN QuestionIds(v) \ own ELSE {}
    IN [q \in (DOMAIN a \cap own) \cup others |->
           IF q \in own THEN a[q] ELSE c.val]

\* C3: with 5 questions per category the level of a category follows from its
\* own score: Green iff score >= 12, Yellow iff 7 <= score <= 11, Red iff
\* score <= 6; other answers for the other categories leave it as it is.
C3_LevelByOwnScore ==
    (Rendered /\ variant = "App") =>
        \A i \in 1..NumCategories :
            LET r == summary.summary[i]
            IN /\ r.level = "Green" <=> r.score >= 12
               /\ r.level = "Yellow" <=> (7 <= r.score /\ r.score <= 11)
               /\ r.level = "Red" <=> r.score <= 6
               /\ \A c \in {ch \in Choices : ch.val \in {0, MaxOptionValue}} :
                      categoryResult(variant, r.category,
                          WithOtherCategories(variant, answers, i, c)
                      ).level = r.level

\* the example of the specification: the last category Green with 14 of 15,
\* the other categories Red with nothing answered
C3_Witness ==
    /\ Rendered
    /\ variant = "App"
    /\ summary.summary[4].score = 14
    /\ summary.summary[4].level = "Green"
    /\ \A i \in 1..3 : summary.summary[i].level = "Red"

\* C4 as stated: in every variant a category is Green exactly when its score
\* is at least 80% of the category maximum.
C4_GreenAt80PercentInEveryVariant ==
    Rendered =>
        \A i \in 1..NumCategories :
            summary.summary[i].level = "Green"
                <=> 5 * summary.summary[i].score >= 4 * CategoryMax(variant)

\* C4 amended: with category maximum 15 a category is Green exactly from 80%
\* of the maximum on (12), with category maximum 12 exactly from 75% of the
\* maximum on (9).
C4_GreenThresholdPerVariant ==
    Rendered =>
        \A i \in 1..NumCategories :
            LET r == summary.summary[i]
            IN /\ variant = "App" =>
                    (r.level = "Green" <=> 5 * r.score >= 4 * CategoryMax(variant))
               /\ variant = "part_002" =>
                    (r.level = "Green" <=> 4 * r.score >= 3 * CategoryMax(variant))

\* a Green category of 9 out of 12
C4_Witness ==
    /\ Rendered
    /\ variant = "part_002"
    /\ \E i \in 1..NumCategories :
          summary.summary[i].score = 9 /\ summary.summary[i].level = "Green"

\* C5: when every question is unanswered or answered with the sentinel, every
\* category score is 0, totalScore is 0 and every level is Red.
C5_ZeroFloor ==
    (Rendered /\ \A q \in DOMAIN answers : answers[q] = Sentinel) =>
        /\ summary.totalScore = 0
        /\ \A i \in 1..NumCategories :
              summary.summary[i].score = 0 /\ summary.summary[i].level = "Red"

\* sentinel answers and unanswered questions on one sheet
C5_Witness ==
    /\ Rendered
    /\ \A q \in DOMAIN answers : answers[q] = Sentinel
    /\ DOMAIN answers # {}
    /\ DOMAIN answers # QuestionIds(variant)

\* C6: a category whose questions are all answered with the maximum value 3
\* scores (questions in the category) x 3 and is Green, whatever the answers
\* of the other categories.
C6_MaxCeiling ==
    Rendered =>
        \A i \in 1..NumCategories :
            (\A q \in IdsOfCategory(variant, i) :
                 q \in DOMAIN answers /\ answers[q] = MaxOptionValue)
            => /\ summary.summary[i].score = CategoryMax(variant)
               /\ summary.summary[i].level = "Green"

\* one category at its maximum while another scores nothing
C6_Witness ==
    /\ Rendered
    /\ \E i \in 1..NumCategories :
          \A q \in IdsOfCategory(variant, i) :
              q \in DOMAIN answers /\ answers[q] = MaxOptionValue
    /\ \E j \in 1..NumCategories : summary.summary[j].score = 0
    /\ \E j \in 1..NumCategories : summary.summary[j].level = "Yellow"

\* C7: the fallback rule is total: every totalScore in 0..60 gets one persona
\* id of the fixed set, and so does every installed fallback report.
C7_FallbackTotal ==
    /\ \A t \in 0..MaxTotalScore : fallbackId(variant, t) \in PersonaIds
    /\ FallbackInstalled =>
          /\ aiAnalysis.selectedPersonaId.type = "string"
          /\ InstalledId \in PersonaIds

\* a fallback report for a total of the middle band, which no test of the
\* rule names
C7_Witness ==
    /\ FallbackInstalled
    /\ variant = "App"
    /\ summary.totalScore > 20
    /\ summary.totalScore < 38
    /\ InstalledId = neighbor

\* the id of the band of totalScore t with 5 questions per category
BandId(t) ==
    CASE t \in 48..60 -> charmer
      [] t \in 38..47 -> statue
      [] t \in 0..20 -> pioneer
      [] t \in 21..37 -> neighbor

\* C8: with 5 questions per category the fallback persona follows the bands
\* 48..60 charmer, 38..47 statue, 0..20 pioneer, 21..37 neighbor, which are
\* disjoint and cover 0..60.
C8_FallbackBands ==
    /\ (48..60) \cup (38..47) \cup (0..20) \cup (21..37) = 0..MaxTotalScore
    /\ Cardinality(48..60) + Cardinality(38..47) + Cardinality(0..20)
           + Cardinality(21..37) = Cardinality(0..MaxTotalScore)
    /\ \A t \in 0..MaxTotalScore : fallbackId("App", t) = BandId(t)
    /\ (FallbackInstalled /\ variant = "App") =>
           InstalledId = BandId(summary.totalScore)

\* fallback reports on both sides of the 47/48 border
C8_Witness ==
    /\ FallbackInstalled
    /\ variant = "App"
    /\ \/ summary.totalScore = 48 /\ InstalledId = charmer
       \/ summary.totalScore = 47 /\ InstalledId = statue

\* C9 as stated: in every variant all answers at the maximum give charmer and
\* all answers at the sentinel give pioneer.
C9_ExtremesInEveryVariant ==
    FallbackInstalled =>
        /\ AllAnswered(MaxOptionValue) => InstalledId = charmer
        /\ AllAnswered(Sentinel) => InstalledId = pioneer

\* C9 amended: in every variant all answers at the maximum give charmer; all
\* answers at the sentinel give pioneer with 5 questions per category and
\* neighbor with 4 questions per category.
C9_ExtremesPerVariant ==
    FallbackInstalled =>
        /\ AllAnswered(MaxOptionValue) => InstalledId = charmer
        /\ AllAnswered(Sentinel) =>
              InstalledId = IF variant = "App" THEN pioneer ELSE neighbor

\* the fallback report of the 4-question variant for a sheet of sentinels
C9_Witness ==
    /\ FallbackInstalled
    /\ variant = "part_002"
    /\ AllAnswered(Sentinel)
    /\ InstalledId = neighbor

\* C10: for every report installed as aiAnalysis, activePersona evaluates
\* without throwing and is a member of the persona list.
C10_ActivePersonaNeverThrows ==
    persona.kind # "pending" =>
        /\ persona.kind = "return"
        /\ \E i \in DOMAIN PERSONAS : persona.value = PERSONAS[i]

\* the letters of str at the positions in at changed to the other case
FlipCase(str, at) ==
    [i \in 1..Len(str) |->
        IF i \notin at THEN str[i]
        ELSE IF toLowerChar(str[i]) # str[i] THEN toLowerChar(str[i])
        ELSE toUpperChar(str[i])]

\* raw is the known id with some letters in upper case and white space
\* around it
SpellsId(raw, id) ==
    \E nl \in 0..MaxPad, nr \in 0..MaxPad :
        /\ Len(raw) = nl + Len(id) + nr
        /\ \A i \in 1..nl : raw[i] \in PadChars
        /\ \A i \in 1..nr : raw[Len(raw) - i + 1] \in PadChars
        /\ \A i \in 1..Len(id) :
              raw[nl + i] \in {id[i], toUpperChar(id[i])}

\* texts that differ from raw only in letter case and in the white space
\* around it
Respellings(raw) ==
    {pad[1] \o FlipCase(raw, at) \o pad[2] :
        pad \in {<<<<>>, <<>>>>, <<<<" ">>, <<"\t">>>>},
        at \in {{1}, 1..Len(raw)}}

\* the report carries a string as selectedPersonaId and has been rendered
StringIdRendered ==
    /\ persona.kind # "pending"
    /\ aiAnalysis.kind = "object"
    /\ aiAnalysis.selectedPersonaId.type = "string"

\* C11: persona normalization ignores letter case and leading and trailing
\* white space: a raw id that spells a known id resolves to that persona, in
\* activePersona and in the webhook's persona lookup, and every respelling
\* of a raw id resolves to the same persona as the raw id.
C11_NormalizationInsensitive ==
    StringIdRendered =>
        LET raw == aiAnalysis.selectedPersonaId.chars
        IN /\ \A id \in PersonaIds :
                SpellsId(raw, id) =>
                    /\ persona = Returned([id |-> id])
                    /\ webhookPayload(aiAnalysis).kind = "payload"
                    /\ webhookPayload(aiAnalysis).persona_title = id
           /\ \A other \in Respellings(raw) :
                activePersona(AiObject(JsString(other), "AI")) = persona

C11_Witness ==
    /\ StringIdRendered
    /\ aiAnalysis.selectedPersonaId.chars = <<" ", "S", "a", "G", "e", "\t">>
    /\ persona = Returned([id |-> sage])

----------------------------------------------------------------------------
(* The component as a state machine: src/App.tsx, with the webhook of      *)
(* src/unnamed/part_000                                                    *)
(*                                                                         *)
(* Every action is one handler, timer callback, effect or continuation of  *)
(* an await, together with the render that follows it.                     *)
(*   lastFetchTimeRef  "zero" = 0, "recent" = less than 2000 ms ago,       *)
(*                     "old" = 2000 ms ago or more                         *)
(*   answerTimers      the setTimeout(nextStep, 250) callbacks under way,  *)
(*                     oldest first, each with the currentIdx of the       *)
(*                     render that created it and the number of user       *)
(*                     events since                                        *)
(*   fallbackTimers    the setTimeout(..., 800) callbacks of               *)
(*                     runDiagnosis(true), each with its fallbackAnalysis  *)
(*   effectQueue       the runs of the auto-trigger effect still to come   *)
(*                     after the commit, each with the state its closure   *)
(*                     captured                                            *)
(*   requests          the generateContent calls awaited                   *)

\* Bounds of the environment
\* user events that fit into the 250 ms of the handleAnswer timer of one of
\* the first FastQuestions questions; one event fits into the 250 ms of the
\* timer of a later question
MaxClicksPerDelay == 3

FastQuestions == 1

\* cap on the webhook fetches awaited at a time
MaxWebhookRequests == 1

\* the leading questions the user answers with "unsure" or with the top
\* option; the later ones are answered with UsualAnswer
FreeAnswers == 1

UsualAnswer == 2

\* React StrictMode may run an effect twice
EffectRuns == 2

QuestionCount == Len(QUESTIONS("App"))

\* the options the user may click on the question at index idx
OptionsAt(idx) ==
    IF idx < FreeAnswers THEN {Sentinel, MaxOptionValue} ELSE {UsualAnswer}

\* what the AI call may resolve to: a parsed JSON value ...
NarratorReports ==
    {AiObject(JsString(<<" ", "S", "a", "G", "e", "\t">>), "AI"),
     AiObject(JsString(<<"g", "u", "r", "u">>), "AI"),
     AiObject(JsUndefined, "AI"),
     JsNull}

\* ... or an exception: a 400 "API key" error, a 429 error, or anything else
\* (network failure, "Empty response from Gemini", a JSON.parse SyntaxError)
NarratorErrors == {"400 API key", "429", "other"}

\* useMemo(..., [step, answers]): the summary is computed again when step
\* changed or setAnswers installed a new object
summaryDepsChanged_StepIgnored(stepChanged, answersReplaced) == answersReplaced

summaryDepsChanged(stepChanged, answersReplaced) ==
    stepChanged \/ answersReplaced

\* the render after a handler: the two useMemo values, computed again when
\* their dependencies changed ([step, answers] and [aiAnalysis])
Rerender(answersReplaced) ==
    /\ summary' = IF summaryDepsChanged(step' # step, answersReplaced)
                  THEN localSummary(variant, step', answers')
                  ELSE summary
    /\ persona' = IF aiAnalysis' # aiAnalysis
                  THEN activePersona(aiAnalysis')
                  ELSE persona

\* a render that threw unmounts the component: nothing runs any more
Mounted == persona.kind = "return"

\* passive effects are flushed before any other event is handled
EffectsFlushed == effectQueue = <<>> /\ mountEffects = 0

Aged(timers) ==
    [i \in DOMAIN timers |-> [timers[i] EXCEPT !.clicks = @ + 1]]

\* a user event can be handled now
UserMayAct ==
    /\ Mounted
    /\ EffectsFlushed
    /\ \A i \in DOMAIN answerTimers :
          answerTimers[i].clicks <
              IF answerTimers[i].currentIdx < FastQuestions
              THEN MaxClicksPerDelay ELSE 1

\* what the closure of the auto-trigger effect reads from the render
EffectClosure ==
    [lastError |-> lastError', showKeyInput |-> showKeyInput',
     hasAnalysis |-> ~Falsy(aiAnalysis')]

\* useEffect(..., [step, localSummary]): in the steps other than 'diagnosing'
\* its condition is false; entering 'diagnosing' schedules its runs
EffectsAfterCommit ==
    effectQueue' = IF step' = "diagnosing" /\ step # "diagnosing"
                   THEN [i \in 1..EffectRuns |-> EffectClosure]
                   ELSE effectQueue

\* the screen of step 'result' is rendered
ResultShown ==
    step = "result" /\ summary.kind = "summary" /\ ~Falsy(aiAnalysis)

\* the error screen of step 'diagnosing' is rendered
ErrorShown == step = "diagnosing" /\ lastError # ""

handleStart_KeepAnswers == answers

\* setAnswers({}) of handleStart
handleStartAnswers == <<>>

\* the body of handleStart but for setIsResultUnlocked(false): part_000
\* takes the parameters off the URL and resets emailStatus as well
handleStartSets ==
    /\ step' = "quiz"
    /\ currentIdx' = 0
    /\ isIntroMode' = TRUE
    /\ answers' = handleStartAnswers
    /\ aiAnalysis' = JsNull
    /\ lastError' = ""
    /\ showKeyInput' = FALSE
    /\ aiFetchingRef' = FALSE
    /\ lastFetchTimeRef' = "zero"
    /\ payload' = NoPayload
    /\ chosen' = <<>>
    /\ source' = "none"
    /\ location' = NoParams
    /\ emailStatus' = "idle"
    /\ called' = NoCall
    /\ origin' = NoOrigin
    /\ UNCHANGED <<variant, keyVars, isAiLoading, requests, fallbackTimers,
                   webhookRequests, urlEmail>>
    /\ EffectsAfterCommit
    /\ Rerender(TRUE)

\* the buttons of the hero screen and of the result screen
handleStart ==
    /\ UserMayAct
    /\ step = "hero" \/ ResultShown
    /\ isResultUnlocked' = FALSE
    /\ answerTimers' = Aged(answerTimers)
    /\ lastOp' = "handleStart"
    /\ UNCHANGED mountEffects
    /\ handleStartSets

\* the URL-parameter effect of part_000, run after the mount: with
\* start=true it calls handleStart, with an email parameter it unlocks the
\* result
UrlParamsEffect ==
    /\ Mounted
    /\ mountEffects > 0
    /\ isResultUnlocked' = IF location.email THEN TRUE
                           ELSE IF location.start THEN FALSE
                           ELSE isResultUnlocked
    /\ lastOp' = "url effect"
    /\ UNCHANGED answerTimers
    /\ mountEffects' = mountEffects - 1
    /\ IF location.start
       THEN handleStartSets
       ELSE /\ called' = NoCall
            /\ origin' = NoOrigin
            /\ UNCHANGED <<variant, step, answers, aiAnalysis, summary,
                           persona, navVars, errorVars, keyVars, isAiLoading,
                           refVars, effectQueue, requests, fallbackTimers,
                           payload, chosen, source, emailStatus,
                           webhookRequests, location, urlEmail>>

\* { ...prev, [id]: val }
WithAnswer_NewKeyOnly(prev, id, val) ==
    IF id \in DOMAIN prev THEN prev
    ELSE [q \in DOMAIN prev \cup {id} |-> IF q = id THEN val ELSE prev[q]]

WithAnswer(prev, id, val) ==
    [q \in DOMAIN prev \cup {id} |-> IF q = id THEN val ELSE prev[q]]

handleAnswer(val) ==
    /\ UserMayAct
    /\ step = "quiz" /\ ~isIntroMode
    /\ LET id == QUESTIONS(variant)[currentIdx + 1].id
       IN /\ answers' = WithAnswer(answers, id, val)
          /\ chosen' = [q \in DOMAIN chosen \cup {id} |->
                            IF q = id THEN val ELSE chosen[q]]
    /\ answerTimers' =
          Append(Aged(answerTimers), [currentIdx |-> currentIdx, clicks |-> 0])
    /\ lastOp' = "handleAnswer"
    /\ UNCHANGED funnelVars
    /\ called' = NoCall
    /\ origin' = NoOrigin
    /\ UNCHANGED <<variant, step, aiAnalysis, navVars, errorVars, keyVars,
                   isAiLoading, refVars, effectQueue, requests,
                   fallbackTimers, payload, source>>
    /\ Rerender(TRUE)

nextStep_StraightToResult(intro, idx) ==
    /\ origin' = [kind |-> "position", isIntroMode |-> intro,
                  currentIdx |-> idx]
    /\ IF intro
       THEN /\ isIntroMode' = FALSE
            /\ UNCHANGED <<step, currentIdx>>
       ELSE IF idx < QuestionCount - 1
       THEN /\ isIntroMode' =
                 IF (idx + 1) % QuestionsPerCategory(variant) = 0 THEN TRUE
                 ELSE isIntroMode
            /\ currentIdx' = idx + 1
            /\ UNCHANGED step
       ELSE /\ step' = "result"
            /\ UNCHANGED <<currentIdx, isIntroMode>>

\* nextStep as closed over a render with isIntroMode = intro and
\* currentIdx = idx
nextStep(intro, idx) ==
    /\ origin' = [kind |-> "position", isIntroMode |-> intro,
                  currentIdx |-> idx]
    /\ IF intro
       THEN /\ isIntroMode' = FALSE
            /\ UNCHANGED <<step, currentIdx>>
       ELSE IF idx < QuestionCount - 1
       THEN /\ isIntroMode' =
                 IF (idx + 1) % QuestionsPerCategory(variant) = 0 THEN TRUE
                 ELSE isIntroMode
            /\ currentIdx' = idx + 1
            /\ UNCHANGED step
       ELSE /\ step' = "diagnosing"
            /\ UNCHANGED <<currentIdx, isIntroMode>>

\* the button of the intro card
ClickNext ==
    /\ UserMayAct
    /\ step = "quiz" /\ isIntroMode
    /\ nextStep(isIntroMode, currentIdx)
    /\ answerTimers' = Aged(answerTimers)
    /\ lastOp' = "nextStep"
    /\ UNCHANGED funnelVars
    /\ called' = NoCall
    /\ UNCHANGED <<variant, answers, aiAnalysis, errorVars, keyVars,
                   isAiLoading, refVars, requests, fallbackTimers, payload,
                   chosen, source>>
    /\ EffectsAfterCommit
    /\ Rerender(FALSE)

\* setTimeout(() => { nextStep(); }, 250) of handleAnswer: the oldest timer
\* under way calls the nextStep of the render that created it
AnswerTimerFires ==
    /\ Mounted
    /\ EffectsFlushed
    /\ answerTimers # <<>>
    /\ nextStep(FALSE, Head(answerTimers).currentIdx)
    /\ answerTimers' = Tail(answerTimers)
    /\ lastOp' = "nextStep"
    /\ UNCHANGED funnelVars
    /\ called' = NoCall
    /\ UNCHANGED <<variant, answers, aiAnalysis, errorVars, keyVars,
                   isAiLoading, refVars, requests, fallbackTimers, payload,
                   chosen, source>>
    /\ EffectsAfterCommit
    /\ Rerender(FALSE)

prevStep ==
    /\ UserMayAct
    /\ step = "quiz"
    /\ IF isIntroMode
       THEN IF currentIdx > 0
            THEN /\ isIntroMode' = FALSE
                 /\ currentIdx' = currentIdx - 1
                 /\ UNCHANGED step
            ELSE /\ step' = "hero"
                 /\ UNCHANGED <<currentIdx, isIntroMode>>
       ELSE IF currentIdx % QuestionsPerCategory(variant) = 0
            THEN /\ isIntroMode' = TRUE
                 /\ UNCHANGED <<step, currentIdx>>
            ELSE /\ currentIdx' = currentIdx - 1
                 /\ UNCHANGED <<step, isIntroMode>>
    /\ answerTimers' = Aged(answerTimers)
    /\ lastOp' = "prevStep"
    /\ UNCHANGED funnelVars
    /\ called' = NoCall
    /\ origin' = NoOrigin
    /\ UNCHANGED <<variant, answers, aiAnalysis, errorVars, keyVars,
                   isAiLoading, refVars, requests, fallbackTimers, payload,
                   chosen, source>>
    /\ EffectsAfterCommit
    /\ Rerender(FALSE)

\* runDiagnosis without the 2000 ms check
runDiagnosisReturns_NoDebounce(forceFallback, overrideKey) ==
    \/ summary.kind # "summary"
    \/ aiFetchingRef /\ ~forceFallback /\ ~overrideKey

\* runDiagnosis returns before it touches anything: no summary, a call under
\* way, or the last call less than 2000 ms ago
runDiagnosisReturns(forceFallback, overrideKey) ==
    \/ summary.kind # "summary"
    \/ aiFetchingRef /\ ~forceFallback /\ ~overrideKey
    \/ ~forceFallback /\ ~overrideKey /\ lastFetchTimeRef = "recent"

beginDiagnosis_Unmarked(fetching, fetchTime, error, keyInput) ==
    [aiFetchingRef |-> fetching, lastFetchTimeRef |-> fetchTime,
     isAiLoading |-> TRUE, lastError |-> "", showKeyInput |-> FALSE]

beginDiagnosis_ErrorKept(fetching, fetchTime, error, keyInput) ==
    [aiFetchingRef |-> TRUE, lastFetchTimeRef |-> "recent",
     isAiLoading |-> TRUE, lastError |-> error, showKeyInput |-> keyInput]

\* aiFetchingRef.current = true; lastFetchTimeRef.current = now;
\* setIsAiLoading(true); setLastError(''); setShowKeyInput(false)
beginDiagnosis(fetching, fetchTime, error, keyInput) ==
    [aiFetchingRef |-> TRUE, lastFetchTimeRef |-> "recent",
     isAiLoading |-> TRUE, lastError |-> "", showKeyInput |-> FALSE]

\* overrideKey || customApiKey || process.env.GEMINI_API_KEY
apiKeyToUse(overrideKey) == overrideKey \/ customApiKey \/ envApiKey

\* runDiagnosis up to its return or its await
runDiagnosis(forceFallback, overrideKey) ==
    /\ called' = [kind |-> "call", forceFallback |-> forceFallback,
                  overrideKey |-> overrideKey]
    /\ IF runDiagnosisReturns(forceFallback, overrideKey)
       THEN /\ lastOp' = "runDiagnosis: returned"
            /\ UNCHANGED <<aiFetchingRef, lastFetchTimeRef, isAiLoading,
                           lastError, showKeyInput, fallbackTimers, requests>>
       ELSE LET begun == beginDiagnosis(aiFetchingRef, lastFetchTimeRef,
                                        lastError, showKeyInput)
            IN /\ lastFetchTimeRef' = begun.lastFetchTimeRef
               /\ IF forceFallback
                  THEN /\ fallbackTimers' =
                            Append(fallbackTimers,
                                   fallbackAnalysis(variant, summary, TRUE))
                       /\ aiFetchingRef' = begun.aiFetchingRef
                       /\ isAiLoading' = begun.isAiLoading
                       /\ lastError' = begun.lastError
                       /\ showKeyInput' = begun.showKeyInput
                       /\ lastOp' = "runDiagnosis: fallback timer"
                       /\ UNCHANGED requests
                  ELSE IF ~apiKeyToUse(overrideKey)
                  THEN /\ lastError' = "API Key missing"
                       /\ showKeyInput' = TRUE
                       /\ isAiLoading' = FALSE
                       /\ aiFetchingRef' = FALSE
                       /\ lastOp' = "runDiagnosis: no key"
                       /\ UNCHANGED <<fallbackTimers, requests>>
                  ELSE /\ requests' = requests + 1
                       /\ aiFetchingRef' = begun.aiFetchingRef
                       /\ isAiLoading' = begun.isAiLoading
                       /\ lastError' = begun.lastError
                       /\ showKeyInput' = begun.showKeyInput
                       /\ lastOp' = "runDiagnosis: request"
                       /\ UNCHANGED fallbackTimers

\* the auto-trigger effect: one run, on the state its closure captured and
\* the refs as they are now
AutoTriggerEffect ==
    /\ Mounted
    /\ effectQueue # <<>>
    /\ effectQueue' = Tail(effectQueue)
    /\ LET seen == Head(effectQueue)
       IN IF /\ step = "diagnosing"
             /\ summary.kind = "summary"
             /\ ~aiFetchingRef
             /\ seen.lastError = ""
             /\ ~seen.hasAnalysis
             /\ ~seen.showKeyInput
          THEN runDiagnosis(FALSE, FALSE)
          ELSE /\ lastOp' = "effect: no call"
               /\ called' = NoCall
               /\ UNCHANGED <<aiFetchingRef, lastFetchTimeRef, isAiLoading,
                              lastError, showKeyInput, fallbackTimers,
                              requests>>
    /\ UNCHANGED <<variant, step, answers, aiAnalysis, navVars, keyVars,
                   answerTimers, payload, chosen, source>>
    /\ UNCHANGED funnelVars
    /\ origin' = NoOrigin
    /\ Rerender(FALSE)

\* the buttons of the error screen that call runDiagnosis(false): with the
\* key input shown the button is disabled while customApiKey is empty
ClickRetry ==
    /\ UserMayAct
    /\ ErrorShown
    /\ showKeyInput => customApiKey
    /\ runDiagnosis(FALSE, FALSE)
    /\ answerTimers' = Aged(answerTimers)
    /\ UNCHANGED funnelVars
    /\ origin' = NoOrigin
    /\ UNCHANGED <<variant, step, answers, aiAnalysis, navVars, keyVars,
                   effectQueue, payload, chosen, source>>
    /\ Rerender(FALSE)

\* the button of the error screen that calls runDiagnosis(true)
ClickFallback ==
    /\ UserMayAct
    /\ ErrorShown
    /\ runDiagnosis(TRUE, FALSE)
    /\ answerTimers' = Aged(answerTimers)
    /\ UNCHANGED funnelVars
    /\ origin' = NoOrigin
    /\ UNCHANGED <<variant, step, answers, aiAnalysis, navVars, keyVars,
                   effectQueue, payload, chosen, source>>
    /\ Rerender(FALSE)

\* onChange of the key input: setCustomApiKey(e.target.value), empty or not
TypeApiKey(nonEmpty) ==
    /\ UserMayAct
    /\ ErrorShown /\ showKeyInput
    /\ customApiKey' = nonEmpty
    /\ answerTimers' = Aged(answerTimers)
    /\ lastOp' = "setCustomApiKey"
    /\ UNCHANGED funnelVars
    /\ called' = NoCall
    /\ origin' = NoOrigin
    /\ UNCHANGED <<variant, step, answers, aiAnalysis, navVars, errorVars,
                   envApiKey, isAiLoading, refVars, effectQueue, requests,
                   fallbackTimers, payload, chosen, source>>
    /\ Rerender(FALSE)

keyInputAfter_Always(error, shown) == TRUE

\* the catch block: setShowKeyInput(true) for a 400 "API key" error and for a
\* 429 error
keyInputAfter(error, shown) ==
    IF error \in {"400 API key", "429"} THEN TRUE ELSE shown

\* the catch block: the message
errorMessage(error) ==
    IF error = "400 API key" THEN "API Key invalid"
    ELSE IF error = "429" THEN "too many requests"
    ELSE "error"

\* runDiagnosis after its await: the call resolved to text that JSON.parse
\* turned into report
NarratorReturns(report) ==
    /\ Mounted
    /\ EffectsFlushed
    /\ requests > 0
    /\ requests' = requests - 1
    /\ aiAnalysis' = report
    /\ isAiLoading' = FALSE
    /\ lastOp' = "runDiagnosis: report"
    /\ UNCHANGED funnelVars
    /\ called' = NoCall
    /\ origin' = NoOrigin
    /\ source' = "ai"
    /\ UNCHANGED <<variant, step, answers, navVars, errorVars, keyVars,
                   refVars, effectQueue, fallbackTimers, answerTimers,
                   payload, chosen>>
    /\ Rerender(FALSE)

\* runDiagnosis after its await: the call, the empty-response check or
\* JSON.parse threw
NarratorThrows(error) ==
    /\ Mounted
    /\ EffectsFlushed
    /\ requests > 0
    /\ requests' = requests - 1
    /\ lastError' = errorMessage(error)
    /\ showKeyInput' = keyInputAfter(error, showKeyInput)
    /\ aiFetchingRef' = FALSE
    /\ isAiLoading' = FALSE
    /\ lastOp' = "runDiagnosis: catch"
    /\ UNCHANGED funnelVars
    /\ called' = NoCall
    /\ origin' = NoOrigin
    /\ UNCHANGED <<variant, step, answers, aiAnalysis, navVars, keyVars,
                   lastFetchTimeRef, effectQueue, fallbackTimers,
                   answerTimers, payload, chosen, source>>
    /\ Rerender(FALSE)

FallbackTimerFires_NothingInstalled == aiAnalysis

\* setAiAnalysis(fallbackAnalysis) of the 800 ms timer
installedByTimer == Head(fallbackTimers)

\* the callback of runDiagnosis(true)'s setTimeout(..., 800); a 250 ms timer
\* created before the button could be clicked is due before it
FallbackTimerFires ==
    /\ Mounted
    /\ EffectsFlushed
    /\ fallbackTimers # <<>>
    /\ answerTimers = <<>>
    /\ fallbackTimers' = Tail(fallbackTimers)
    /\ aiAnalysis' = installedByTimer
    /\ isAiLoading' = FALSE
    /\ aiFetchingRef' = FALSE
    /\ lastOp' = "fallback timer"
    /\ UNCHANGED funnelVars
    /\ called' = NoCall
    /\ origin' = NoOrigin
    /\ source' = IF aiAnalysis' = aiAnalysis THEN source ELSE "fallback"
    /\ UNCHANGED <<variant, step, answers, navVars, errorVars, keyVars,
                   lastFetchTimeRef, effectQueue, requests, answerTimers,
                   payload, chosen>>
    /\ Rerender(FALSE)

\* useEffect(..., [step, aiAnalysis]): while step is 'diagnosing' and
\* aiAnalysis is set, a 300 ms timer is under way (clearTimeout takes it away
\* when either changes); its callback is setStep('result').  A 250 ms timer
\* created in step 'quiz' is due before it.
ResultTimerFires ==
    /\ Mounted
    /\ EffectsFlushed
    /\ step = "diagnosing" /\ ~Falsy(aiAnalysis)
    /\ answerTimers = <<>>
    /\ step' = "result"
    /\ lastOp' = "result timer"
    /\ UNCHANGED funnelVars
    /\ called' = NoCall
    /\ origin' = NoOrigin
    /\ UNCHANGED <<variant, answers, aiAnalysis, navVars, errorVars, keyVars,
                   isAiLoading, refVars, asyncVars, payload, chosen, source>>
    /\ Rerender(FALSE)

\* 2000 ms have passed since lastFetchTimeRef.current
TimePasses ==
    /\ lastFetchTimeRef = "recent"
    /\ lastFetchTimeRef' = "old"
    /\ UNCHANGED <<variant, step, answers, aiAnalysis, summary, persona,
                   navVars, errorVars, keyVars, isAiLoading, aiFetchingRef,
                   asyncVars, payload, historyVars, funnelVars>>
    /\ called' = NoCall
    /\ origin' = NoOrigin

\* sendResultsToWebhook(email, name, aiAnalysis, localSummary): the status,
\* the payload, and the fetch awaited unless building the payload threw
sendResultsToWebhook ==
    /\ emailStatus' = "sending"
    /\ payload' = webhookPayload(aiAnalysis)
    /\ webhookRequests' = IF payload'.kind = "payload"
                          THEN webhookRequests + 1
                          ELSE webhookRequests

\* onSubmit of the unlock form of the locked result screen (part_000), with
\* an email: setIsResultUnlocked(true);
\* if (aiAnalysis && localSummary) sendResultsToWebhook(...)
handleSystemeSubmit ==
    /\ UserMayAct
    /\ ResultShown
    /\ ~isResultUnlocked
    /\ webhookRequests < MaxWebhookRequests
    /\ isResultUnlocked' = TRUE
    /\ sendResultsToWebhook
    /\ answerTimers' = Aged(answerTimers)
    /\ lastOp' = "handleSystemeSubmit"
    /\ called' = NoCall
    /\ origin' = NoOrigin
    /\ UNCHANGED <<variant, step, answers, aiAnalysis, navVars, errorVars,
                   keyVars, isAiLoading, refVars, effectQueue, requests,
                   fallbackTimers, chosen, source, location, mountEffects,
                   urlEmail>>
    /\ Rerender(FALSE)

\* the send-again button of the unlocked result screen, disabled while
\* emailStatus is 'sending'
ClickResend ==
    /\ UserMayAct
    /\ ResultShown
    /\ isResultUnlocked
    /\ emailStatus # "sending"
    /\ webhookRequests < MaxWebhookRequests
    /\ sendResultsToWebhook
    /\ answerTimers' = Aged(answerTimers)
    /\ lastOp' = "sendResultsToWebhook"
    /\ called' = NoCall
    /\ origin' = NoOrigin
    /\ UNCHANGED <<variant, step, answers, aiAnalysis, navVars, errorVars,
                   keyVars, isAiLoading, refVars, effectQueue, requests,
                   fallbackTimers, chosen, source, isResultUnlocked,
                   location, mountEffects, urlEmail>>
    /\ Rerender(FALSE)

\* sendResultsToWebhook after its await: response.ok, or a response that is
\* not ok or a failed fetch
WebhookResponds(ok) ==
    /\ Mounted
    /\ EffectsFlushed
    /\ webhookRequests > 0
    /\ webhookRequests' = webhookRequests - 1
    /\ emailStatus' = IF ok THEN "success" ELSE "error"
    /\ lastOp' = "webhook response"
    /\ called' = NoCall
    /\ origin' = NoOrigin
    /\ UNCHANGED <<variant, step, answers, aiAnalysis, navVars, errorVars,
                   keyVars, isAiLoading, refVars, asyncVars, payload, chosen,
                   source, isResultUnlocked, location, mountEffects,
                   urlEmail>>
    /\ Rerender(FALSE)

\* the mounted component: step 'hero', the first render done
AppInit ==
    /\ variant = "App"
    /\ step = "hero"
    /\ answers = <<>>
    /\ aiAnalysis = JsNull
    /\ summary = localSummary(variant, step, answers)
    /\ persona = activePersona(aiAnalysis)
    /\ envApiKey \in BOOLEAN
    /\ ComponentAtRest
    /\ PlainUrl

AppNext ==
    \/ handleStart
    \/ \E val \in OptionsAt(currentIdx) : handleAnswer(val)
    \/ ClickNext
    \/ AnswerTimerFires
    \/ prevStep
    \/ AutoTriggerEffect
    \/ ClickRetry
    \/ ClickFallback
    \/ \E nonEmpty \in BOOLEAN : TypeApiKey(nonEmpty)
    \/ \E report \in NarratorReports : NarratorReturns(report)
    \/ \E error \in NarratorErrors : NarratorThrows(error)
    \/ FallbackTimerFires
    \/ ResultTimerFires
    \/ TimePasses

AppSpec == AppInit /\ [][AppNext]_vars

\* the reports of the AI call that carry a string id
FunnelReports ==
    {r \in NarratorReports :
        r.kind = "object" /\ selectedPersonaIdOf(r).type = "string"}

\* the page of part_000 opened with or without the URL parameters start and
\* email, an API key configured
FunnelInit ==
    /\ variant = "App"
    /\ step = "hero"
    /\ answers = <<>>
    /\ aiAnalysis = JsNull
    /\ summary = localSummary(variant, step, answers)
    /\ persona = activePersona(aiAnalysis)
    /\ envApiKey = TRUE
    /\ ComponentAtRest
    /\ location \in [start : BOOLEAN, email : BOOLEAN]
    /\ mountEffects = EffectRuns
    /\ urlEmail = location.email

\* a user who goes through the quiz without going back, an AI call that
\* returns a report, and the email funnel of the result screen
FunnelNext ==
    \/ UrlParamsEffect
    \/ handleStart
    \/ \E val \in OptionsAt(currentIdx) : handleAnswer(val)
    \/ ClickNext
    \/ AnswerTimerFires
    \/ AutoTriggerEffect
    \/ \E report \in FunnelReports : NarratorReturns(report)
    \/ ResultTimerFires
    \/ TimePasses
    \/ handleSystemeSubmit
    \/ ClickResend
    \/ \E ok \in BOOLEAN : WebhookResponds(ok)

FunnelSpec == FunnelInit /\ [][FunnelNext]_vars

\* The end of a quiz run on its own: the user is on the last question, having
\* answered the questions before it, and goes on to the result screen without
\* going back
DiagnosisInit ==
    /\ variant = "App"
    /\ step = "quiz"
    /\ currentIdx = QuestionCount - 1
    /\ isIntroMode = FALSE
    /\ answers \in {[q \in 1..QuestionCount - 1 |->
                        IF q <= FreeAnswers THEN free[q] ELSE UsualAnswer] :
                     free \in [1..FreeAnswers -> OptionValues]}
    /\ chosen = answers
    /\ aiAnalysis = JsNull
    /\ summary = localSummary(variant, step, answers)
    /\ persona = activePersona(aiAnalysis)
    /\ envApiKey \in BOOLEAN
    /\ customApiKey = FALSE
    /\ lastError = ""
    /\ showKeyInput = FALSE
    /\ isAiLoading = FALSE
    /\ aiFetchingRef = FALSE
    /\ lastFetchTimeRef = "zero"
    /\ effectQueue = <<>>
    /\ requests = 0
    /\ fallbackTimers = <<>>
    /\ answerTimers = <<>>
    /\ payload = NoPayload
    /\ lastOp = "nextStep"
    /\ source = "none"
    /\ emailStatus = "idle"
    /\ isResultUnlocked = FALSE
    /\ webhookRequests = 0
    /\ called = NoCall
    /\ origin = NoOrigin
    /\ PlainUrl

DiagnosisNext ==
    \/ \E val \in OptionsAt(currentIdx) : handleAnswer(val)
    \/ AnswerTimerFires
    \/ AutoTriggerEffect
    \/ ClickRetry
    \/ ClickFallback
    \/ \E nonEmpty \in BOOLEAN : TypeApiKey(nonEmpty)
    \/ \E report \in NarratorReports : NarratorReturns(report)
    \/ \E error \in NarratorErrors : NarratorThrows(error)
    \/ FallbackTimerFires
    \/ ResultTimerFires
    \/ TimePasses

DiagnosisSpec == DiagnosisInit /\ [][DiagnosisNext]_vars

\* what the environment of the component is sure to do: timers come due,
\* effects run after the commit, the awaited call settles, time passes.  The
\* user is not bound to click anything.
FairDiagnosisSpec ==
    /\ DiagnosisSpec
    /\ WF_vars(AnswerTimerFires)
    /\ WF_vars(AutoTriggerEffect)
    /\ WF_vars(FallbackTimerFires)
    /\ WF_vars(ResultTimerFires)
    /\ WF_vars(TimePasses)
    /\ WF_vars(\/ \E report \in NarratorReports : NarratorReturns(report)
               \/ \E error \in NarratorErrors : NarratorThrows(error))

----------------------------------------------------------------------------
(* Properties of the state machine                                         *)

\* the AI path has just proved unavailable: the call threw (an empty
\* response and unparsable text included) or no API key is configured
AiUnavailable ==
    /\ step = "diagnosing"
    /\ lastOp \in {"runDiagnosis: catch", "runDiagnosis: no key"}

FallbackStandsIn ==
    /\ step = "result"
    /\ source = "fallback"
    /\ aiAnalysis = fallbackAnalysis(variant, summary, TRUE)

\* C12 as stated: when the AI Narrator is unavailable, the fallback report is
\* installed as the analysis and the result step is eventually reached from
\* the diagnosing step.
C12_FallbackWhenUnavailable == AiUnavailable ~> FallbackStandsIn

\* C12 amended: when the AI Narrator is unavailable the error screen is shown
\* and nothing is installed on its own; once runDiagnosis(true) has been
\* called from that screen, the fallback report is installed as the analysis
\* and the result step is eventually reached from the diagnosing step.
C12_FallbackOnRequest ==
    /\ [](AiUnavailable =>
            ErrorShown /\ aiAnalysis = JsNull /\ fallbackTimers = <<>>)
    /\ (step = "diagnosing" /\ fallbackTimers # <<>>) ~> FallbackStandsIn

C12_Witness ==
    /\ FallbackStandsIn
    /\ lastOp = "result timer"

\* C13: the fallback report becomes aiAnalysis only through the timer of a
\* runDiagnosis(true) call, which only the error screen makes; within one
\* quiz run a report returned by the AI call is never replaced by the
\* fallback report.
C13_FallbackOnlyWhenForced ==
    [][/\ Len(fallbackTimers') > Len(fallbackTimers) =>
            ErrorShown /\ lastOp' = "runDiagnosis: fallback timer"
       /\ (aiAnalysis' # aiAnalysis /\ aiAnalysis'.kind = "object"
             /\ aiAnalysis'.personaExplanation # "AI") =>
            /\ lastOp' = "fallback timer"
            /\ summary.kind = "summary"
            /\ aiAnalysis' = fallbackAnalysis(variant, summary, TRUE)
       /\ (source = "ai" /\ lastOp' # "handleStart") =>
            source' = "ai" /\ aiAnalysis' = aiAnalysis]_vars

C13_Witness ==
    /\ source = "fallback"
    /\ lastOp = "fallback timer"
    /\ aiAnalysis = fallbackAnalysis(variant, summary, TRUE)
    /\ customApiKey

\* C14: right after handleStart answers is empty, aiAnalysis is null,
\* lastError is empty, showKeyInput is false, the in-flight flag and the
\* last-fetch time are reset and the quiz is at step 'quiz', question index
\* 0, in intro mode; a summary is computed from the answers given since the
\* last restart and from nothing else.
C14_RestartDiscards ==
    /\ lastOp = "handleStart" =>
          /\ answers = <<>>
          /\ aiAnalysis = JsNull
          /\ lastError = ""
          /\ ~showKeyInput
          /\ ~aiFetchingRef
          /\ lastFetchTimeRef = "zero"
          /\ step = "quiz"
          /\ currentIdx = 0
          /\ isIntroMode
    /\ summary.kind = "summary" => summary = localSummary(variant, step, chosen)

\* a restart after a run that went through the key input
C14_Witness ==
    /\ lastOp = "handleStart"
    /\ customApiKey

\* the id of the question on screen
CurrentQuestionId == QUESTIONS(variant)[currentIdx + 1].id

\* C15: answers is a mapping from question ids to one value each, its keys
\* are the questions answered since the last restart, and answering a
\* question changes answers at that question only: a new key for a first
\* answer, the new value in place of the old one for a repeated answer.
C15_OneAnswerPerQuestion ==
    /\ [](/\ DOMAIN answers \subseteq QuestionIds(variant)
          /\ answers = chosen)
    /\ [][answers' # answers =>
            \/ lastOp' = "handleStart" /\ answers' = <<>>
            \/ /\ step = "quiz" /\ ~isIntroMode
               /\ DOMAIN answers' = DOMAIN answers \cup {CurrentQuestionId}
               /\ \A q \in DOMAIN answers \ {CurrentQuestionId} :
                     answers'[q] = answers[q]
               /\ answers'[CurrentQuestionId] \in OptionValues]_vars

\* the first question answered twice in a row, with a different value
C15_Witness ==
    /\ DOMAIN answers = {1}
    /\ answers[1] = MaxOptionValue
    /\ Len(answerTimers) = 2
    /\ lastOp = "handleAnswer"

\* C16: the persona_id of the webhook payload is one of the six persona ids.
C16_WebhookPersonaIdKnown ==
    payload.kind = "payload" => payload.persona_id \in PersonaIds

\* what localSummary makes of an answers mapping in the scoring steps
SummaryOf(a) == localSummary(variant, "result", a)

\* C17: in the steps 'diagnosing' and 'result' the summary in use is the one
\* the answers mapping alone determines, whatever aiAnalysis, lastError, the
\* refs and the calls under way are.
C17_SummaryByAnswersAlone ==
    step \in {"diagnosing", "result"} => summary = SummaryOf(answers)

\* the result screen of a run that met an error, typed a key and fell back
C17_Witness ==
    /\ step = "result"
    /\ source = "fallback"
    /\ customApiKey
    /\ summary.kind = "summary"

Levels == {"Red", "Yellow", "Green"}

\* C18: for empty answers, partial answers and answers with values outside
\* the option scale, localSummary yields a summary with one result per
\* category, in the order of the categories, each with a level Red, Yellow
\* or Green.
C18_SummaryTotal ==
    summary # Pending =>
        /\ summary.kind = "summary"
        /\ Len(summary.summary) = NumCategories
        /\ \A i \in 1..NumCategories :
              /\ summary.summary[i].category = categories(variant)[i]
              /\ summary.summary[i].level \in Levels

\* a partial sheet with values below and above the scale
C18_Witness ==
    /\ summary.kind = "summary"
    /\ \E q \in DOMAIN answers : answers[q] < Sentinel
    /\ \E q \in DOMAIN answers : answers[q] > MaxOptionValue
    /\ DOMAIN answers # QuestionIds(variant)
    /\ summary.summary[1].score < 0

\* C19: step changes only along hero -> quiz (handleStart), quiz -> hero
\* (prevStep on the first intro card), quiz -> diagnosing (the nextStep of
\* the last question), diagnosing -> result (with the analysis installed)
\* and result -> quiz (handleStart).
C19_StepTransitions ==
    [][step' # step =>
        \/ step = "hero" /\ step' = "quiz" /\ lastOp' = "handleStart"
        \/ /\ step = "quiz" /\ step' = "hero"
           /\ lastOp' = "prevStep" /\ isIntroMode /\ currentIdx = 0
        \/ /\ step = "quiz" /\ step' = "diagnosing"
           /\ lastOp' = "nextStep"
           /\ answerTimers # <<>>
           /\ Head(answerTimers).currentIdx = QuestionCount - 1
        \/ /\ step = "diagnosing" /\ step' = "result"
           /\ lastOp' = "result timer" /\ ~Falsy(aiAnalysis)
        \/ step = "result" /\ step' = "quiz" /\ lastOp' = "handleStart"]_vars

\* the result screen, reached with a report of the AI call after the error
\* screen
C19_Witness ==
    /\ step = "result"
    /\ lastOp = "result timer"
    /\ customApiKey
    /\ source = "ai"

\* C20: at most one AI request is outstanding, the in-flight flag is set
\* while it is, and no step adds a request to one that is outstanding.
C20_OneRequest ==
    /\ [](requests <= 1 /\ (requests = 1 => aiFetchingRef))
    /\ [][requests >= 1 => requests' <= requests]_vars

\* the second run of the auto-trigger effect, with the request of the first
\* outstanding, started nothing
C20_Witness ==
    /\ requests = 1
    /\ lastOp = "effect: no call"

\* C21: a runDiagnosis call without forceFallback and without override key
\* made less than 2000 ms after the last accepted call returns at once and
\* leaves aiAnalysis, lastError, showKeyInput, isAiLoading, the in-flight
\* flag and the last-fetch time as they are; a call with forceFallback or an
\* override key is never stopped by the debounce or by the in-flight guard.
C21_Debounce ==
    /\ [](summary.kind = "summary" =>
            \A f, o \in BOOLEAN : (f \/ o) => ~runDiagnosisReturns(f, o))
    /\ [][called'.kind = "call" =>
            /\ (/\ ~called'.forceFallback
                /\ ~called'.overrideKey
                /\ lastFetchTimeRef = "recent") =>
                  /\ lastOp' = "runDiagnosis: returned"
                  /\ UNCHANGED <<aiAnalysis, lastError, showKeyInput,
                                 isAiLoading, aiFetchingRef,
                                 lastFetchTimeRef>>
            /\ (called'.forceFallback \/ called'.overrideKey) =>
                  lastOp' # "runDiagnosis: returned"]_vars

\* a call dropped by the debounce alone: no call is under way
C21_Witness ==
    /\ called.kind = "call"
    /\ ~called.forceFallback
    /\ lastOp = "runDiagnosis: returned"
    /\ lastFetchTimeRef = "recent"
    /\ ~aiFetchingRef

\* the messages that come with the key input
KeyInputErrors ==
    {"API Key missing", errorMessage("400 API key"), errorMessage("429")}

AiFailed == lastOp \in {"runDiagnosis: catch", "runDiagnosis: no key"}

\* C22: when the AI call fails or no API key is available, aiAnalysis is left
\* as it is, lastError is non-empty, the in-flight flag and isAiLoading are
\* cleared, step stays 'diagnosing', and showKeyInput is set exactly for a
\* missing key, a 400 "API key" error and a 429 error.
C22_FailureShowsError ==
    /\ [](AiFailed =>
            /\ lastError # ""
            /\ ~aiFetchingRef
            /\ ~isAiLoading
            /\ step = "diagnosing"
            /\ showKeyInput <=> lastError \in KeyInputErrors)
    /\ [][(requests' < requests \/ lastOp' = "runDiagnosis: no key") =>
            (AiFailed' => aiAnalysis' = aiAnalysis /\ step' = step)]_vars

\* a failure of another kind after a key was typed: the key input is gone
C22_Witness ==
    /\ lastOp = "runDiagnosis: catch"
    /\ lastError = errorMessage("other")
    /\ ~showKeyInput
    /\ customApiKey

\* C23: with step 'result' aiAnalysis and the summary are non-null; with step
\* 'hero' or 'quiz' the summary is null, and any runDiagnosis call would
\* return at once.
C23_SummaryWithStep ==
    /\ step = "result" =>
          /\ aiAnalysis # JsNull
          /\ ~Falsy(aiAnalysis)
          /\ summary.kind = "summary"
    /\ step \in {"hero", "quiz"} =>
          /\ summary = NullSummary
          /\ \A f, o \in BOOLEAN : runDiagnosisReturns(f, o)

\* the result screen with the report of the AI call, reached without an
\* error
C23_Witness ==
    /\ step = "result"
    /\ summary.kind = "summary"
    /\ source = "ai"
    /\ ~customApiKey
    /\ lastOp = "result timer"

\* C24: in the steps 'diagnosing' and 'result' answers holds an entry for
\* every question of the question bank.
C24_AllAnswered ==
    step \in {"diagnosing", "result"} =>
        DOMAIN answers = QuestionIds(variant)

\* C25: in step 'quiz' intro mode is shown only at a category boundary:
\* isIntroMode implies that currentIdx is a multiple of the number of
\* questions per category.
C25_IntroAtBoundary ==
    (step = "quiz" /\ isIntroMode) =>
        currentIdx % QuestionsPerCategory(variant) = 0

\* C26: within step 'quiz', a nextStep call followed by prevStep returns to
\* the position (currentIdx, isIntroMode) the nextStep call started from and
\* leaves answers unchanged.
C26_PrevUndoesNext ==
    [][(origin.kind = "position" /\ step = "quiz" /\ lastOp' = "prevStep") =>
          /\ step' = "quiz"
          /\ currentIdx' = origin.currentIdx
          /\ isIntroMode' = origin.isIntroMode
          /\ answers' = answers]_vars

\* C27: once every question is answered the step becomes 'diagnosing' with
\* an answer for each question, and once aiAnalysis is installed the step
\* eventually becomes 'result'.
C27_QuizTerminates ==
    /\ [](step = "diagnosing" => DOMAIN answers = QuestionIds(variant))
    /\ (step = "diagnosing" /\ ~Falsy(aiAnalysis)) ~> (step = "result")

\* C28: in a page session opened with an email parameter in the URL,
\* isResultUnlocked is true whenever the result step is shown.
C28_EmailParamUnlocks ==
    (urlEmail /\ step = "result") => isResultUnlocked

\* C29: from a restart until the next sendResultsToWebhook call (while no
\* payload has been sent in the run), emailStatus is 'idle'.
C29_IdleUntilNextSend ==
    payload = NoPayload => emailStatus = "idle"

\* C30: the persona whose title is sent in the webhook payload is the persona
\* shown on the result page.
C30_PayloadPersonaIsShown ==
    payload.kind = "payload" =>
        /\ persona.kind = "return"
        /\ payload.persona_title = persona.value.id

====
